---- MODULE Spec2Model ----
(***************************************************************************)
(* Model of the tracing control-flow helpers of evox:                      *)
(*   src/src/evox/utils/_control_flow/loop.py   TracingWhile (cached)      *)
(*   src/src/utils/control_flow.py              TracingWhile, TracingCond  *)
(*                                                                         *)
(* Two specifications share the module.                                    *)
(*   SpecRun  one call of loop / cond in one execution mode, stepped       *)
(*            through the statements of the procedure that runs it.        *)
(*   Spec     the life of the tracer objects: construction through the     *)
(*            instance cache, the two per-tracer caches, builds.           *)
(*                                                                         *)
(* A tensor is modelled by its value on every lane of the batch: a         *)
(* function [1..L -> 0..ValMod-1].  Outside a batch L = 1.  The operands   *)
(* of a call are a sequence of tensors.                                    *)
(***************************************************************************)
EXTENDS Integers, Sequences, FiniteSets

\* ------------------------------------------------------------------ bounds
\* Tensor elements are integers modulo ValMod.
ValMod == 4
\* Largest number of lanes of a batch.
MaxLanes == 3
\* Largest number of outputs of a branch function.
MaxOut == 2

\* ------------------------------------------------------- program constants
\* len(loops_dict) / len(cond_dict): the procedures _loop1.._loop9.
MaxArity == 9

Values == 0 .. (ValMod - 1)
Arities == 0 .. (MaxArity + 1)
Impls == {"loop_py", "control_flow_py"}
Modes == {"direct", "trace", "vmap"}
\* Saturation point of the call counters: above every terminating run.
CountCap == ValMod + 2

Bump(k) == IF k < CountCap THEN k + 1 ELSE CountCap

\* The call under way: tracer class, mode, operands, step functions.
VARIABLE inp

\* ------------------------------------------------ the user's step functions
\* The tracer stores whatever pure functions the caller gives it.  The model
\* draws them from a family indexed by `lim`: the condition reads the first
\* operand, the body advances the first operand and mixes it into the others,
\* so that every operand changes in every iteration and no two operands
\* change alike.  Arguments are the operands of ONE lane (a sequence of
\* integers).  Element arithmetic wraps at the modulus of the call, inp.wrap.
cond_fn(lim, xs) ==
    IF Len(xs) = 0 THEN lim > 0 ELSE xs[1] < lim

body_fn(xs) ==
    [i \in 1 .. Len(xs) |->
        IF i = 1 THEN (xs[1] + 1) % inp.wrap
                 ELSE (xs[i] + xs[1] + i) % inp.wrap]

\* The branch functions of a TracingCond: true_fn returns lenT tensors,
\* false_fn returns lenF tensors, all different.
First0(xs) == IF Len(xs) = 0 THEN 0 ELSE xs[1]

true_fn(lenT, xs) ==
    [j \in 1 .. lenT |-> (First0(xs) + j) % ValMod]

false_fn(lenF, xs) ==
    [j \in 1 .. lenF |-> (First0(xs) + j + 2) % ValMod]

\* ----------------------------------------------------------- tensor helpers
Lanes(L) == 1 .. L

\* The operands of lane l alone.
LaneOf(x, l) == [i \in 1 .. Len(x) |-> x[i][l]]

\* tensor.any()
AnyTrue(m) == \E l \in DOMAIN m : m[l]

\* torch.where(c, a, b): a where the mask holds, b elsewhere.
TorchWhereFlipped(c, a, b) == [l \in DOMAIN a |-> IF c[l] THEN b[l] ELSE a[l]]

TorchWhere(c, a, b) == [l \in DOMAIN a |-> IF c[l] THEN a[l] ELSE b[l]]

\* The example operands of a call: operand i of the lane with seed s.
Operand(i, s) == (s + i - 1) % inp.wrap

MakeOperands(n, L, seed) ==
    [i \in 1 .. n |-> [l \in Lanes(L) |-> Operand(i, seed[l])]]

\* ----------------------------------------------- one call, step by step
VARIABLES
    pc,         \* "call" "cond" "body" "branch" "ret" "done" "error"
    x,          \* the operands as the running procedure holds them
    xform,      \* how x is held: "tuple" of operands or one bare "tensor"
    cond_res,   \* the last condition result: one mask per operand
    nCond,      \* evaluations of the condition function so far
    nBody,      \* evaluations of the body function so far
    nTrue,      \* evaluations of true_fn so far
    nFalse,     \* evaluations of false_fn so far
    state,      \* the state dictionary of a stateful loop, and who saw what
    res         \* what the call returned or raised

runVars == <<inp, pc, x, xform, cond_res, nCond, nBody, nTrue, nFalse, state, res>>

\* `pos` is the argument position an error message names (0: none).
\* `tags` are the batch tags put back on each result of a batched loop.
NoRes ==
    [status |-> "none", err |-> "", vals |-> <<>>, form |-> "none", pos |-> 0, tags |-> <<>>,
     state |-> <<>>]
RaisedAt(e, k) ==
    [status |-> "error", err |-> e, vals |-> <<>>, form |-> "none", pos |-> k, tags |-> <<>>,
     state |-> <<>>]
Raised(e) == RaisedAt(e, 0)
Returned(v, f) ==
    [status |-> "ok", err |-> "", vals |-> v, form |-> f, pos |-> 0, tags |-> <<>>,
     state |-> <<>>]

\* --- the state of a stateful loop (loop.py _compile_state_loop_fn) --------
\* The dictionary holds what the condition wrote last (key "c") and what the
\* body wrote last (key "b"); a write is the number of the evaluation that
\* made it.  `condSaw` / `bodySaw` is the dictionary the last condition /
\* body call was given.
NoState ==
    [dict |-> [c |-> 0, b |-> 0], condSaw |-> [c |-> 0, b |-> 0],
     bodySaw |-> [c |-> 0, b |-> 0]]

Tick(nc, nb) == nc + nb + 1

\* state.update(other)
DictUpdateDropped(d, w) == d

DictUpdate(d, w) == [k \in DOMAIN d |-> IF k \in DOMAIN w THEN w[k] ELSE d[k]]

\* cond_state, cond = cond_fn(state, *xs); state.update(cond_state)
StateCond(st, tick) ==
    [st EXCEPT !.condSaw = st.dict,
               !.dict = DictUpdate(st.dict, [c |-> tick])]

\* body_state, xs = body_fn(state, *xs); state.update(body_state)
StateBody(st, tick) ==
    [st EXCEPT !.bodySaw = st.dict,
               !.dict = DictUpdate(st.dict, [b |-> tick])]

\* vmap(cond_fn) / vmap(body_fn): the step functions lifted over the lanes.
vmap_cond(lim, xs) ==
    [l \in DOMAIN xs[1] |-> cond_fn(lim, LaneOf(xs, l))]

vmap_body(xs) ==
    [i \in 1 .. Len(xs) |-> [l \in DOMAIN xs[1] |-> body_fn(LaneOf(xs, l))[i]]]

\* _vmap_cond_fn: the lifted condition, expanded to one mask per operand.
\* _expand_vmap_dim views the same per-lane result with size 1 on every
\* axis that is not a batch axis: lane by lane it is the same mask.
vmap_cond_fn_first_only(lim, xs) ==
    [i \in 1 .. Len(xs) |->
        IF i = 1 THEN vmap_cond(lim, xs) ELSE [l \in DOMAIN xs[1] |-> TRUE]]

vmap_cond_fn(lim, xs) ==
    [i \in 1 .. Len(xs) |-> vmap_cond(lim, xs)]

\* What the batched procedure _loopN binds to its mask variable(s) first
\* (cond(x1)[0] in _loop1, a destructured tuple in _loop2.._loop9) and at the
\* end of an iteration (cond(x1), not indexed, in _loop1).
VmapInitMaskForm(n) == "tensor"

VmapRefreshMaskForm(n) == IF n = 1 THEN "tuple" ELSE "tensor"

\* torch.jit.script types every variable of a procedure once: a variable
\* bound to a Tensor cannot be re-bound to a tuple.  _loop1 binds the body's
\* result to x1 itself, so the body must return a bare tensor there.
ScriptTypeChecks(mode, n, form) ==
    /\ n = 1 => form = "tensor"
    /\ mode = "vmap" => VmapRefreshMaskForm(n) = VmapInitMaskForm(n)

\* The outcome of building the specialized procedure for n operands:
\* the assertion on the operand count, the lookup loops_dict[n] /
\* cond_dict[n], and the script compilation of the procedure.
BuildOutcome(kind, mode, n, form) ==
    IF mode = "direct" THEN "ok"
    ELSE IF kind = "cond" /\ mode = "vmap" THEN "ok"
    ELSE IF n > MaxArity THEN "AssertionError"
    ELSE IF n = 0 THEN "KeyError"
    ELSE IF kind = "while" /\ ~ScriptTypeChecks(mode, n, form) THEN "ScriptTypeError"
    ELSE "ok"

\* --- the direct loop (loop.py 78-84, control_flow.py 78-80) ---------------
\* `while self.cond_fn(*x)`: the test on one evaluation of the condition.
DirectTestNegated(lim, xs) == ~cond_fn(lim, xs)

DirectTest(lim, xs) == cond_fn(lim, xs)

\* `x = self.body_fn(*x)`.
DirectAssign(xs) == body_fn(xs)

\* --- the compiled loop _loopN of trace mode -----------------------------
\* `cond = cond_fn(*xs)` then `while cond`.
TraceTestStops(lim, xs) == FALSE

TraceTest(lim, xs) == cond_fn(lim, xs)

\* `xs = body_fn(*xs)`.
TraceAssignFirstOnly(xs) == [i \in 1 .. Len(xs) |-> IF i = 1 THEN body_fn(xs)[1] ELSE xs[i]]

TraceAssign(xs) == body_fn(xs)

\* --- the batched loop _loopN of vmap mode -------------------------------
\* The predicated update of one iteration of the batched loop:
\* x_i = torch.where(cond_res_i, x_i_new, x_i) for every operand.
VmapUpdateNoMask(masks, xnew, xold) == xnew

VmapUpdate(masks, xnew, xold) ==
    [i \in 1 .. Len(xold) |-> TorchWhere(masks[i], xnew[i], xold[i])]

\* `while cond_res1.any()`: the continuation test reads the first mask.
VmapTest(masks) == AnyTrue(masks[1])

\* How each mode hands back the final operands.
ReturnForm(impl, mode, n, hform) ==
    IF mode = "direct" THEN hform
    ELSE IF mode = "trace" THEN (IF n = 1 THEN "tensor" ELSE "tuple")
    ELSE IF impl = "control_flow_py" THEN "list"
    ELSE IF n = 1 THEN "tensor" ELSE "tuple"

\* --- TracingCond (control_flow.py) ---------------------------------------
\* A branch function applied to batched operands gives, per output, the
\* value of the function on every lane.
Lift(outs, L) ==
    [j \in 1 .. Len(outs[1]) |-> [l \in Lanes(L) |-> outs[l][j]]]

TrueRes(lenT, xs, L) == Lift([l \in Lanes(L) |-> true_fn(lenT, LaneOf(xs, l))], L)

FalseRes(lenF, xs, L) == Lift([l \in Lanes(L) |-> false_fn(lenF, LaneOf(xs, l))], L)

MinOf(a, b) == IF a <= b THEN a ELSE b

\* cond: `if cond: x = self.true_fn(*x) else: x = self.false_fn(*x)`.
DirectCond(pred, lenT, lenF, xs) ==
    IF pred[1] THEN TrueRes(lenT, xs, 1) ELSE FalseRes(lenF, xs, 1)

DirectCondCalls(pred) ==
    [t |-> IF pred[1] THEN 1 ELSE 0, f |-> IF pred[1] THEN 0 ELSE 1]

\* trace_cond: the compiled _condN, `if condition: x = true_fn(x1, ..)`.
TraceCond(pred, lenT, lenF, xs) ==
    IF pred[1] THEN TrueRes(lenT, xs, 1) ELSE FalseRes(lenF, xs, 1)

TraceCondCallsBoth(pred) == [t |-> 1, f |-> 1]

TraceCondCalls(pred) ==
    [t |-> IF pred[1] THEN 1 ELSE 0, f |-> IF pred[1] THEN 0 ELSE 1]

\* vmap_cond: both branches run, then torch.where over zip(true, false).
VmapCondFirstLane(pred, lenT, lenF, xs, L) ==
    IF pred[1] THEN TrueRes(lenT, xs, L) ELSE FalseRes(lenF, xs, L)

VmapCondKeepsExtra(pred, lenT, lenF, xs, L) ==
    LET t == TrueRes(lenT, xs, L)
        f == FalseRes(lenF, xs, L)
    IN  [j \in 1 .. Len(t) |->
            IF j <= Len(f) THEN TorchWhere(pred, t[j], f[j]) ELSE t[j]]

VmapCond(pred, lenT, lenF, xs, L) ==
    LET t == TrueRes(lenT, xs, L)
        f == FalseRes(lenF, xs, L)
    IN  [j \in 1 .. MinOf(Len(t), Len(f)) |-> TorchWhere(pred, t[j], f[j])]

VmapCondCallsTakenOnly(pred) ==
    [t |-> IF AnyTrue(pred) THEN 1 ELSE 0,
     f |-> IF \E l \in DOMAIN pred : ~pred[l] THEN 1 ELSE 0]

VmapCondCalls(pred) == [t |-> 1, f |-> 1]

\* --------------------------------------------------------- tracer objects
VARIABLES
    cls,        \* the tracer class of this run: "W" loop.py TracingWhile,
                \* "CW" control_flow.py TracingWhile, "CC" TracingCond
    menu,       \* the operand tuples this run calls its tracers with
    held,       \* the tracer each call site holds a reference to (0: none)
    objs,       \* the tracer objects, by identity
    iwc,        \* _while_object_cache: function pair -> tracer (0: no entry)
    nextId,     \* identity of the next object created
    ncalls,     \* loop / cond calls made so far
    last        \* what the last operation did

objVars == <<cls, menu, held, objs, iwc, nextId, ncalls, last>>

vars == <<runVars, objVars>>

\* Tracer objects ever created, and loop / cond calls, in one run.
MaxObjs == 2
MaxCalls == 2

Classes == {"W", "CW", "CC"}
Holders == {"a", "b"}
\* (cond_fn, body_fn) or (true_fn, false_fn): two pairs that share their first
\* function; "m.h" is a bound method.
Pairs == {<<"f", "g">>, <<"f", "m.h">>}
IsBoundMethod(fn) == fn = "m.h"

\* An operand as the caches see it: batch-axis descriptor, rank, element
\* type, storage location.
OpBase == [bd |-> "0", nd |-> "1", dt |-> "int32", dev |-> "cpu"]

Repeat(op, n) == [i \in 1 .. n |-> op]

OperandTuples ==
    { Repeat(OpBase, 2),
      <<[OpBase EXCEPT !.dt = "float32"], OpBase>>,
      <<[OpBase EXCEPT !.bd = "1"], OpBase>>,
      <<[OpBase EXCEPT !.nd = "2"], OpBase>>,
      <<[OpBase EXCEPT !.dev = "cuda"], OpBase>>,
      Repeat(OpBase, 3),
      Repeat(OpBase, MaxArity + 1) }

\* key = tuple((a.ndim, a.dtype, a.device) for a in x)
TraceKey(ops) == [i \in 1 .. Len(ops) |-> <<ops[i].nd, ops[i].dt, ops[i].dev>>]

\* key = tuple((d, a.ndim, a.dtype, a.device) for d, a in zip(vmap_dims, original_args))
VmapKeyLoopPy(ops) ==
    [i \in 1 .. Len(ops) |-> <<ops[i].bd, ops[i].nd, ops[i].dt, ops[i].dev>>]

\* key = tuple((d, a.ndim) for d, a in zip(vmap_dims, original_args))
VmapKeyControlFlow(ops) == [i \in 1 .. Len(ops) |-> <<ops[i].bd, ops[i].nd>>]

Put(f, k, v) == [d \in DOMAIN f \cup {k} |-> IF d = k THEN v ELSE f[d]]

CountUp(f, k) == Put(f, k, IF k \in DOMAIN f THEN f[k] + 1 ELSE 1)

\* self._cache_compiled_loop[key] = compiled_cond
StoreTraceNothing(cache, key, proc) == cache

StoreTrace(cache, key, proc) == Put(cache, key, proc)

\* self._cache_compiled_vmap_loop[key] = vmap_loop_compiled
StoreVmapNothing(cache, key, proc) == cache

StoreVmapAlone(cache, key, proc) == Put(<<>>, key, proc)

StoreVmap(cache, key, proc) == Put(cache, key, proc)

NoObj == [alive |-> FALSE, pair |-> <<>>, stateful |-> FALSE,
          ctrace |-> <<>>, cvmap |-> <<>>, nbuilt |-> <<>>]

\* stateful_functions = any(hasattr(unwrap(fn), "__self__") for fn in (body_fn, cond_fn))
ResolveStatefulAutoOnly(st, pair) == IsBoundMethod(pair[1]) \/ IsBoundMethod(pair[2])

ResolveStateful(st, pair) ==
    IF st = "auto" THEN IsBoundMethod(pair[1]) \/ IsBoundMethod(pair[2])
    ELSE st = "yes"

\* The fields __init__ sets on a tracer it initialises.
NewTracer(pair, stateful) ==
    [alive |-> TRUE, pair |-> pair, stateful |-> stateful,
     ctrace |-> <<>>, cvmap |-> <<>>, nbuilt |-> <<>>]

\* __init__ on a tracer that __new__ took from the instance cache:
\* `if self.__cache_key__ in _while_object_cache: return`.
InitAgain(obj, pair, stateful) == NewTracer(pair, stateful)

InitResetCaches(obj, pair, stateful) == [obj EXCEPT !.ctrace = <<>>, !.cvmap = <<>>]

InitEarlyReturn(obj, pair, stateful) == obj

\* _get_cache_key_object(_while_object_cache, cond_fn, body_fn): the tracer
\* cached under the identity of the pair, or else the key to register it by.
GetCacheKeyObject(cache, pair) ==
    IF cache[pair] # 0 THEN [found |-> TRUE, obj |-> cache[pair]]
    ELSE [found |-> FALSE, obj |-> 0]

\* _while_object_cache[self.__cache_key__] = self
RegisterNothing(cache, pair, id) == cache

RegisterInstance(cache, pair, id) == [cache EXCEPT ![pair] = id]

\* The condition re-evaluated in the stateful _loopN gets the operands
\* unpacked (cond_fn(state, *xs)), except in _loop3 (cond_fn(state, xs)):
\* the traced condition takes the state and three tensors, so that call
\* does not compile.
StateLoopCondArgs(n) == IF n = 3 THEN "packed" ELSE "unpacked"

\* Building the procedure of a loop.py tracer (bodies of one operand
\* return a bare tensor here).
BuildOutcomeW(mode, stateful, n) ==
    LET b == BuildOutcome("while", mode, n, IF n = 1 THEN "tensor" ELSE "tuple") IN
    IF b # "ok" THEN b
    ELSE IF mode = "trace" /\ stateful /\ StateLoopCondArgs(n) # "unpacked"
    THEN "ScriptTypeError" ELSE "ok"

\* The operand signature of the design: rank, element type and storage
\* location per operand, and the batch-axis descriptor under a batch.
Signature(mode, ops) ==
    IF mode = "vmap" THEN VmapKeyLoopPy(ops) ELSE TraceKey(ops)

Outcome(obj, ok, hit, built, from) ==
    [obj |-> obj, ok |-> ok, hit |-> hit, built |-> built, from |-> from]

\* A call that goes through a specialization cache: look the key up, build
\* and store on a miss, run the procedure.
CachedCallMemoFail(obj, cache, key, b, ops, mode, store) ==
    IF key \in DOMAIN cache
    THEN Outcome(obj, TRUE, TRUE, FALSE, cache[key])
    ELSE IF b # "ok" THEN Outcome(store, FALSE, FALSE, FALSE, <<>>)
    ELSE Outcome([store EXCEPT !.nbuilt = CountUp(@, <<mode, Signature(mode, ops)>>)],
                 TRUE, FALSE, TRUE, ops)

CachedCall(obj, cache, key, b, ops, mode, store) ==
    IF key \in DOMAIN cache
    THEN Outcome(obj, TRUE, TRUE, FALSE, cache[key])
    ELSE IF b # "ok" THEN Outcome(obj, FALSE, FALSE, FALSE, <<>>)
    ELSE Outcome([store EXCEPT !.nbuilt = CountUp(@, <<mode, Signature(mode, ops)>>)],
                 TRUE, FALSE, TRUE, ops)

\* A call that compiles its procedure every time.
UncachedCall(obj, b, ops, mode) ==
    IF b # "ok" THEN Outcome(obj, FALSE, FALSE, FALSE, <<>>)
    ELSE Outcome([obj EXCEPT !.nbuilt = CountUp(@, <<mode, Signature(mode, ops)>>)],
                 TRUE, FALSE, TRUE, ops)

\* loop.py: trace_loop (in stateful mode x[0] is the state, not an operand).
TraceLoopWOneCache(obj, ops) ==
    CachedCall(obj, obj.ctrace, TraceKey(ops),
               BuildOutcomeW("trace", obj.stateful, Len(ops)), ops, "trace",
               [obj EXCEPT !.ctrace = StoreTrace(@, TraceKey(ops), ops),
                           !.cvmap = StoreTrace(@, TraceKey(ops), ops)])

TraceLoopW(obj, ops) ==
    CachedCall(obj, obj.ctrace, TraceKey(ops),
               BuildOutcomeW("trace", obj.stateful, Len(ops)), ops, "trace",
               [obj EXCEPT !.ctrace = StoreTrace(@, TraceKey(ops), ops)])

\* loop.py: vmap_loop.
VmapLoopW(obj, ops) ==
    CachedCall(obj, obj.cvmap, VmapKeyLoopPy(ops),
               BuildOutcomeW("vmap", obj.stateful, Len(ops)), ops, "vmap",
               [obj EXCEPT !.cvmap = StoreVmap(@, VmapKeyLoopPy(ops), ops)])

\* control_flow.py: trace_loop scripts loops_dict[len(x)] on every call.
TraceLoopCW(obj, ops) ==
    UncachedCall(obj, BuildOutcome("while", "trace", Len(ops),
                                   IF Len(ops) = 1 THEN "tensor" ELSE "tuple"),
                 ops, "trace")

\* control_flow.py: vmap_loop.
VmapLoopCW(obj, ops) ==
    CachedCall(obj, obj.cvmap, VmapKeyControlFlow(ops),
               BuildOutcome("while", "vmap", Len(ops), "tuple"), ops, "vmap",
               [obj EXCEPT !.cvmap = Put(@, VmapKeyControlFlow(ops), ops)])

\* control_flow.py: trace_cond scripts cond_dict[len(x)] on every call.
TraceCondCC(obj, ops) ==
    UncachedCall(obj, BuildOutcome("cond", "trace", Len(ops), "tuple"), ops, "trace")

\* The direct loop / cond and vmap_cond build nothing and touch no cache.
PlainCall(obj, ops) == Outcome(obj, TRUE, FALSE, FALSE, <<>>)

NoLast == [op |-> "none"]

CallOutcome(c, obj, mode, ops) ==
    IF mode = "direct" THEN PlainCall(obj, ops)
    ELSE IF c = "W" THEN (IF mode = "trace" THEN TraceLoopW(obj, ops) ELSE VmapLoopW(obj, ops))
    ELSE IF c = "CW" THEN (IF mode = "trace" THEN TraceLoopCW(obj, ops) ELSE VmapLoopCW(obj, ops))
    ELSE IF mode = "trace" THEN TraceCondCC(obj, ops) ELSE PlainCall(obj, ops)


\* The batch axes of the operands of a batched call, as vmap_loop unwraps
\* them: per operand one axis position per nesting level, level 1 first.
\* A plain batched call has one level, on axis 0 of every operand.
FlatDims(n) == [i \in 1 .. n |-> <<0>>]

NestedDims(n) == [1 .. n -> [1 .. 2 -> 0 .. 1]]

\* Nondecreasing seeds: the lanes of a batch are interchangeable.
RECURSIVE SeedSeqs(_)
SeedSeqs(L) ==
    IF L = 0 THEN {<<>>}
    ELSE {Append(s, v) : s \in SeedSeqs(L - 1), v \in Values}

Seeds(L) == {s \in SeedSeqs(L) : \A l \in 1 .. (L - 1) : s[l] <= s[l + 1]}

InitRun ==
    /\ \E kind \in {"while", "cond"}, impl \in Impls, mode \in Modes,
          n \in Arities, L \in 1 .. MaxLanes, lim \in 0 .. ValMod,
          form \in {"tensor", "tuple"}, lenT \in 1 .. MaxOut, lenF \in 1 .. MaxOut :
        \E seed \in Seeds(L), pred \in [Lanes(L) -> BOOLEAN] :
          /\ mode # "vmap" => L = 1
          /\ n # 1 => form = "tuple"
          /\ kind = "while" => lenT = 1 /\ lenF = 1 /\ \A l \in Lanes(L) : pred[l]
          /\ kind = "cond" => impl = "control_flow_py" /\ lim = 0 /\ form = "tuple"
          /\ inp = [kind |-> kind, impl |-> impl, mode |-> mode, n |-> n, L |-> L,
                    lim |-> lim, form |-> form, seed |-> seed, pred |-> pred,
                    lenT |-> lenT, lenF |-> lenF,
                    skew |-> 0, bad |-> 0, stateful |-> FALSE, wrap |-> ValMod,
                    dims |-> FlatDims(n)]
          /\ x = MakeOperands(n, L, seed)
    /\ pc = "call"
    /\ xform = (IF inp.mode = "direct" \/ inp.n # 1 THEN "tuple" ELSE "tensor")
    /\ cond_res = <<>>
    /\ nCond = 0 /\ nBody = 0 /\ nTrue = 0 /\ nFalse = 0
    /\ res = NoRes
    /\ state = NoState
    /\ cls = "none" /\ menu = {} /\ held = [h \in Holders |-> 0]
    /\ objs = [o \in 1 .. MaxObjs |-> NoObj] /\ iwc = [p \in Pairs |-> 0]
    /\ nextId = 1 /\ ncalls = 0 /\ last = NoLast

\* --- irregular calls -----------------------------------------------------
\* The condition (the true branch) takes n operands; `skew` is how many more
\* the body (the false branch) takes.  A function called with another number
\* of arguments than it takes raises: TypeError from a Python call,
\* RuntimeError from a scripted function or from script compilation.
Accepts(arity, nargs) == arity = nargs

ArityError(impl, mode) ==
    IF impl = "control_flow_py" /\ mode # "vmap" THEN "RuntimeError" ELSE "TypeError"

\* The direct loop passes everything it was given, the state included.
DirectArgs(stateful, n) == IF stateful THEN n + 1 ELSE n

\* vmap_loop: `assert isinstance(arg, torch.Tensor), f"Expect all arguments
\* in `vmap` to be `torch.Tensor`, got {type(arg)}"`.  The message gives the
\* type of the offending argument and no position.
VmapOperandCheck(bad) ==
    IF bad = 0 THEN NoRes ELSE RaisedAt("AssertionError", 0)

\* Tracing the step functions with the example operands is the first thing
\* a build does; it calls each of them with n operands.
TraceStepFns(impl, mode, n, skew) ==
    IF Accepts(n + skew, n) THEN NoRes ELSE Raised(ArityError(impl, mode))

\* What the entry of a call raises before the procedure runs (NoRes: nothing).
CallEntry(i) ==
    IF i.mode = "direct" \/ (i.kind = "cond" /\ i.mode = "vmap") THEN NoRes
    ELSE IF i.mode = "vmap" /\ VmapOperandCheck(i.bad) # NoRes THEN VmapOperandCheck(i.bad)
    ELSE IF TraceStepFns(i.impl, i.mode, i.n, i.skew) # NoRes
    THEN TraceStepFns(i.impl, i.mode, i.n, i.skew)
    ELSE LET b == IF i.stateful THEN BuildOutcomeW(i.mode, TRUE, i.n)
                  ELSE BuildOutcome(i.kind, i.mode, i.n, i.form)
         IN  IF b = "ok" THEN NoRes ELSE Raised(b)

\* Entry of the call: trace_loop / vmap_loop / trace_cond look up or build
\* the specialized procedure; the direct loop and cond build nothing.
Dispatch ==
    /\ pc = "call"
    /\ IF CallEntry(inp) = NoRes
       THEN /\ pc' = (IF inp.kind = "while" THEN "cond" ELSE "branch")
            /\ res' = res
       ELSE /\ pc' = "error"
            /\ res' = CallEntry(inp)
    /\ UNCHANGED <<inp, x, xform, cond_res, nCond, nBody, nTrue, nFalse, state, objVars>>

\* One evaluation of the condition and the loop test on its result.
\* The direct loop calls cond_fn(*x): star-unpacking a bare 0-d tensor raises.
EvalCond ==
    /\ pc = "cond"
    /\ IF inp.mode = "direct" /\ xform = "tensor"
       THEN /\ pc' = "error"
            /\ res' = Raised("TypeError")
            /\ UNCHANGED <<cond_res, nCond, state>>
       ELSE IF inp.mode = "direct" /\ ~Accepts(inp.n, DirectArgs(inp.stateful, inp.n))
       THEN /\ pc' = "error"
            /\ res' = Raised(ArityError(inp.impl, inp.mode))
            /\ UNCHANGED <<cond_res, nCond, state>>
       ELSE /\ cond_res' =
                 (IF inp.mode = "vmap" THEN vmap_cond_fn(inp.lim, x)
                  ELSE IF inp.mode = "trace"
                  THEN <<[l \in Lanes(1) |-> TraceTest(inp.lim, LaneOf(x, 1))]>>
                  ELSE <<[l \in Lanes(1) |-> DirectTest(inp.lim, LaneOf(x, 1))]>>)
            /\ nCond' = Bump(nCond)
            /\ pc' = (IF VmapTest(cond_res') THEN "body" ELSE "ret")
            /\ res' = res
            /\ state' = (IF inp.stateful /\ inp.mode = "trace"
                         THEN StateCond(state, Tick(nCond, nBody)) ELSE state)
    /\ UNCHANGED <<inp, x, xform, nBody, nTrue, nFalse, objVars>>

\* One evaluation of the body and the assignment of its result.
\* In the direct loop a body of another arity than the operands raises here,
\* at its first call.
EvalBody ==
    /\ pc = "body"
    /\ IF inp.mode = "direct" /\ ~Accepts(inp.n + inp.skew, DirectArgs(inp.stateful, inp.n))
       THEN /\ pc' = "error"
            /\ res' = Raised(ArityError(inp.impl, inp.mode))
            /\ UNCHANGED <<x, xform, nBody, state>>
       ELSE /\ x' = (IF inp.mode = "vmap" THEN VmapUpdate(cond_res, vmap_body(x), x)
                     ELSE IF inp.mode = "trace"
                     THEN [i \in 1 .. Len(x) |-> [l \in Lanes(1) |-> TraceAssign(LaneOf(x, 1))[i]]]
                     ELSE [i \in 1 .. Len(x) |-> [l \in Lanes(1) |-> DirectAssign(LaneOf(x, 1))[i]]])
            /\ xform' = (IF inp.mode = "direct" THEN inp.form ELSE xform)
            /\ nBody' = Bump(nBody)
            /\ pc' = "cond"
            /\ res' = res
            /\ state' = (IF inp.stateful /\ inp.mode = "trace"
                         THEN StateBody(state, Tick(nCond, nBody)) ELSE state)
    /\ UNCHANGED <<inp, cond_res, nCond, nTrue, nFalse, objVars>>

\* vmap_cond checks nothing about its operands: what a branch function does
\* with a non-tensor operand is the function's affair, it may as well raise.
NonTensorOutcomes(bad) == IF bad = 0 THEN {} ELSE {Raised("TypeError")}

\* The whole of cond / the compiled _condN / vmap_cond: the branch
\* functions run and the result list is returned.
Branch ==
    /\ pc = "branch"
    /\ LET xs == x
           calls == IF inp.mode = "vmap" THEN VmapCondCalls(inp.pred)
                    ELSE IF inp.mode = "trace" THEN TraceCondCalls(inp.pred)
                    ELSE DirectCondCalls(inp.pred)
           out == IF inp.mode = "vmap"
                  THEN VmapCond(inp.pred, inp.lenT, inp.lenF, xs, inp.L)
                  ELSE IF inp.mode = "trace"
                  THEN TraceCond(inp.pred, inp.lenT, inp.lenF, xs)
                  ELSE DirectCond(inp.pred, inp.lenT, inp.lenF, xs)
       IN  IF calls.f > 0 /\ ~Accepts(inp.n + inp.skew, inp.n)
           THEN /\ nTrue' = nTrue + calls.t
                /\ nFalse' = nFalse
                /\ res' = Raised(ArityError(inp.impl, inp.mode))
                /\ pc' = "error"
           ELSE /\ nTrue' = nTrue + calls.t
                /\ nFalse' = nFalse + calls.f
                /\ res' \in {Returned(out, "list")} \cup NonTensorOutcomes(inp.bad)
                /\ pc' = (IF res'.status = "ok" THEN "done" ELSE "error")
    /\ UNCHANGED <<inp, x, xform, cond_res, nCond, nBody, state, objVars>>

\* A stateful tracer: the compiled _loopN ends in `return state, (x1, ...)`,
\* the direct loop in `return x` like any other.
StateReturnForm(mode, hform) == IF mode = "trace" THEN "pair" ELSE hform

\* vmap_loop after the procedure returned:
\*     for r, d in zip(ret, vmap_dims):
\*         for level, dim in enumerate(d, 1): r = add_batch_dim(r, dim, level)
\*         returns.append(r)
\* zip walks `ret`: the tuple of final operands, or, where the procedure
\* returned one bare tensor, the slices of that tensor along its first axis.
AddBatchDims(d) == [k \in 1 .. Len(d) |-> [level |-> k, dim |-> d[k]]]

AddBatchDimsReversed(d) ==
    [k \in 1 .. Len(d) |-> [level |-> k, dim |-> d[Len(d) + 1 - k]]]

FirstSlice(t) == [l \in {1} |-> t[1]]

VmapReturns(ret, rform, dims, form) ==
    LET items == IF rform = "tensor" THEN <<FirstSlice(ret[1])>> ELSE ret
        k == MinOf(Len(items), Len(dims))
    IN  [Returned([i \in 1 .. k |-> items[i]], form)
            EXCEPT !.tags = [i \in 1 .. k |-> AddBatchDims(dims[i])]]

\* `return x`: the loop hands back the operands it holds.
Return ==
    /\ pc = "ret"
    /\ res' = (IF inp.mode = "vmap"
               THEN VmapReturns(x, xform, inp.dims,
                                ReturnForm(inp.impl, inp.mode, inp.n, xform))
               ELSE IF inp.stateful /\ inp.mode = "trace"
               THEN [Returned(x, StateReturnForm(inp.mode, xform))
                        EXCEPT !.state = state.dict]
               ELSE Returned(x, IF inp.stateful THEN StateReturnForm(inp.mode, xform)
                                ELSE ReturnForm(inp.impl, inp.mode, inp.n, xform)))
    /\ pc' = "done"
    /\ UNCHANGED <<inp, x, xform, cond_res, nCond, nBody, nTrue, nFalse, state, objVars>>

NextRun == Dispatch \/ EvalCond \/ EvalBody \/ Branch \/ Return

SpecRun == InitRun /\ [][NextRun]_vars

\* A call runs on one thread: the statement the procedure is at is executed.
SpecRunFair == InitRun /\ [][NextRun]_vars /\ WF_vars(NextRun)

\* The direct and the compiled loop alone, run to the end.
InitLoop == InitRun /\ inp.kind = "while" /\ inp.mode # "vmap"

NextLoop == Dispatch \/ EvalCond \/ EvalBody \/ Return

SpecLoopFair == InitLoop /\ [][NextLoop]_vars /\ WF_vars(NextLoop)

\* ------------------------------------------------- irregular calls
\* The same call, started from calls the regular runs leave out: step
\* functions of different arities, a non-tensor operand under a batch, a
\* stateful tracer, and the documented example `x < 10` / `x + 1`.
ExampleLimit == 10

ExampleStarts == <<0, 5, 9>>

ExampleSeeds(L) ==
    IF L = 1 THEN {<<ExampleStarts[k]>> : k \in 1 .. Len(ExampleStarts)}
    ELSE {ExampleStarts}

InitIrregular ==
    /\ \E kind \in {"while", "cond"}, impl \in Impls, mode \in Modes,
          n \in 1 .. 3, L \in 1 .. MaxLanes, lim \in 0 .. ValMod,
          skew \in 0 .. 1, stateful \in BOOLEAN, example \in BOOLEAN,
          nested \in BOOLEAN :
        \E bad \in 0 .. n, pred \in [Lanes(L) -> BOOLEAN],
           seed \in (IF example THEN ExampleSeeds(L) ELSE Seeds(L)),
           dims \in (IF nested THEN NestedDims(n) ELSE {FlatDims(n)}) :
          /\ mode # "vmap" => L = 1 /\ bad = 0
          /\ kind = "while" => \A l \in Lanes(L) : pred[l]
          /\ kind = "cond" => impl = "control_flow_py" /\ lim = 0
          /\ stateful => kind = "while" /\ impl = "loop_py" /\ mode # "vmap"
          /\ Cardinality({k \in {1, 2, 3, 4, 5} :
                  \/ k = 1 /\ skew # 0
                  \/ k = 2 /\ bad # 0
                  \/ k = 3 /\ stateful
                  \/ k = 4 /\ example
                  \/ k = 5 /\ nested}) = 1
          /\ nested => kind = "while" /\ mode = "vmap"
          /\ example => kind = "while" /\ impl = "loop_py" /\ n = 1 /\ lim = 0
                         /\ L \in {1, Len(ExampleStarts)}
          /\ inp = [kind |-> kind, impl |-> impl, mode |-> mode, n |-> n, L |-> L,
                    lim |-> (IF example THEN ExampleLimit ELSE lim),
                    form |-> (IF n = 1 /\ (example \/ mode # "direct")
                              THEN "tensor" ELSE "tuple"),
                    seed |-> seed, pred |-> pred, lenT |-> 1, lenF |-> 1,
                    skew |-> skew, bad |-> bad, stateful |-> stateful,
                    wrap |-> (IF example THEN ExampleLimit + 1 ELSE ValMod),
                    dims |-> dims]
          /\ x = MakeOperands(n, L, seed)
    /\ pc = "call"
    /\ xform = (IF inp.mode = "direct" \/ inp.n # 1 THEN "tuple" ELSE "tensor")
    /\ cond_res = <<>>
    /\ nCond = 0 /\ nBody = 0 /\ nTrue = 0 /\ nFalse = 0
    /\ res = NoRes
    /\ state = NoState
    /\ cls = "none" /\ menu = {} /\ held = [h \in Holders |-> 0]
    /\ objs = [o \in 1 .. MaxObjs |-> NoObj] /\ iwc = [p \in Pairs |-> 0]
    /\ nextId = 1 /\ ncalls = 0 /\ last = NoLast

SpecIrregular == InitIrregular /\ [][NextRun]_vars

\* ------------------------------------------------- a function under vmap
\* unit_test/core/test_jit_util.py:
\*     @partial(vmap)
\*     def _single_eval(x, p = 2.0, q = torch.tensor([0, 1])):
\*         return (x**p).sum() * q.sum()
\* A lane of x is a row of numbers; p and q are the declared defaults.
DefaultP == 2

DefaultQ == <<0, 1>>

\* 2 * torch.ones(10, 2) and the expected [8.0] * 10 of the tests.
TestLanes == 10

TestBatch == [l \in Lanes(TestLanes) |-> <<2, 2>>]

Expected == 8

RECURSIVE Pow(_, _)
Pow(b, e) == IF e = 0 THEN 1 ELSE b * Pow(b, e - 1)

RECURSIVE SumSeq(_)
SumSeq(sq) == IF Len(sq) = 0 THEN 0 ELSE sq[1] + SumSeq(Tail(sq))

\* The function on one lane alone.
single_eval_no_q(row, p, q) == SumSeq([i \in 1 .. Len(row) |-> Pow(row[i], p)])

single_eval(row, p, q) == SumSeq([i \in 1 .. Len(row) |-> Pow(row[i], p)]) * SumSeq(q)

\* The function on a batch, operation by operation under the batch rules:
\* x**p is elementwise on the whole batch, .sum() of a batched tensor
\* reduces every axis but the batch axis, q.sum() is one unbatched number,
\* and the product broadcasts it over the lanes.
VmapLift(batch, p, q) ==
    LET pw == [l \in DOMAIN batch |-> [i \in 1 .. Len(batch[l]) |-> Pow(batch[l][i], p)]]
        red == [l \in DOMAIN batch |-> SumSeq(pw[l])]
        qs == SumSeq(q)
    IN  [l \in DOMAIN batch |-> red[l] * qs]

\* torch.compile captures the operations of one call, the defaults as
\* constants, and replays them.
CompiledLift(batch, p, q) == VmapLift(batch, p, q)

InitLift ==
    /\ \E L \in 1 .. MaxLanes, p \in {1, DefaultP},
          q \in {DefaultQ, <<1, 1>>, <<0, 0>>}, test \in BOOLEAN :
        \E c1 \in Seeds(L), c2 \in SeedSeqs(L) :
          /\ test => L = 1 /\ p = DefaultP /\ q = DefaultQ /\ c1 = <<0>> /\ c2 = <<0>>
          /\ inp = [kind |-> "lift", p |-> p, q |-> q,
                    batch |-> (IF test THEN TestBatch
                               ELSE [l \in Lanes(L) |-> <<c1[l], c2[l]>>])]
    /\ pc = "lift"
    /\ x = <<>> /\ xform = "tuple" /\ cond_res = <<>>
    /\ nCond = 0 /\ nBody = 0 /\ nTrue = 0 /\ nFalse = 0
    /\ res = NoRes
    /\ state = NoState
    /\ cls = "none" /\ menu = {} /\ held = [h \in Holders |-> 0]
    /\ objs = [o \in 1 .. MaxObjs |-> NoObj] /\ iwc = [pr \in Pairs |-> 0]
    /\ nextId = 1 /\ ncalls = 0 /\ last = NoLast

\* test_single_eval: _single_eval(batch).
CallLifted ==
    /\ pc = "lift"
    /\ res' = Returned(<<VmapLift(inp.batch, inp.p, inp.q)>>, "tensor")
    /\ pc' = "eager"
    /\ UNCHANGED <<inp, x, xform, cond_res, nCond, nBody, nTrue, nFalse, state, objVars>>

\* test_jit_single_eval: torch.compile(_single_eval)(batch).
CallCompiled ==
    /\ pc = "lift"
    /\ res' = Returned(<<CompiledLift(inp.batch, inp.p, inp.q)>>, "tensor")
    /\ pc' = "compiled"
    /\ UNCHANGED <<inp, x, xform, cond_res, nCond, nBody, nTrue, nFalse, state, objVars>>

NextLift == CallLifted \/ CallCompiled

SpecLift == InitLift /\ [][NextLift]_vars



\* ------------------------------------------------- tracer life cycle
\* Tracers that no call site references any more: CPython frees them at once.
Unreferenced(os, hs) ==
    {o \in DOMAIN os : os[o].alive /\ \A h \in Holders : hs[h] # o}

\* A freed tracer keeps nothing but the function pair it was built for,
\* which the model remembers to tell a re-construction from a first one.
Collect(os, hs) ==
    [o \in DOMAIN os |->
        IF o \in Unreferenced(os, hs) THEN [NoObj EXCEPT !.pair = os[o].pair] ELSE os[o]]

\* _while_object_cache = weakref.WeakValueDictionary() and
\* weakref.finalize(self, _while_object_cache.pop, self.__cache_key__, None):
\* the entry of a freed tracer goes away.
FinalizeNothing(cache, os, hs) == cache

Finalize(cache, os, hs) ==
    [p \in Pairs |-> IF cache[p] \in Unreferenced(os, hs) THEN 0 ELSE cache[p]]

LiveWith(os, pair) == {o \in DOMAIN os : os[o].alive /\ os[o].pair = pair}

Init ==
    /\ cls \in Classes
    /\ menu \in {{Repeat(OpBase, 2), t} : t \in OperandTuples \ {Repeat(OpBase, 2)}}
    /\ held = [h \in Holders |-> 0]
    /\ objs = [o \in 1 .. MaxObjs |-> NoObj]
    /\ iwc = [p \in Pairs |-> 0]
    /\ nextId = 1
    /\ ncalls = 0
    /\ last = NoLast
    /\ inp = [kind |-> "none"]
    /\ pc = "idle"
    /\ x = <<>> /\ xform = "tuple" /\ cond_res = <<>>
    /\ nCond = 0 /\ nBody = 0 /\ nTrue = 0 /\ nFalse = 0
    /\ res = NoRes
    /\ state = NoState

\* h = TracingWhile(cond_fn, body_fn, stateful_functions=st), or
\* h = TracingCond(true_fn, false_fn): __new__ and __init__, then the
\* call site drops the reference it held before. The call sites are
\* interchangeable: "a" is the one that binds first.
Construct(h, pair, st) ==
    /\ cls # "W" => st = "auto"
    /\ h = "b" => held["a"] # 0
    /\ LET r == IF cls = "W" THEN GetCacheKeyObject(iwc, pair)
                ELSE [found |-> FALSE, obj |-> 0]
           id == IF r.found THEN r.obj ELSE nextId
           objs1 == IF r.found
                    THEN [objs EXCEPT ![id] =
                            InitEarlyReturn(@, pair, ResolveStateful(st, pair))]
                    ELSE [objs EXCEPT ![id] =
                            NewTracer(pair, cls = "W" /\ ResolveStateful(st, pair))]
           iwc1 == IF cls = "W" /\ ~r.found THEN RegisterInstance(iwc, pair, id) ELSE iwc
           held1 == [held EXCEPT ![h] = id]
       IN  /\ ~r.found => nextId <= MaxObjs
           /\ held' = held1
           /\ objs' = Collect(objs1, held1)
           /\ iwc' = Finalize(iwc1, objs1, held1)
           /\ nextId' = (IF r.found THEN nextId ELSE nextId + 1)
           /\ last' = [op |-> "construct", h |-> h, obj |-> id, pair |-> pair,
                       st |-> st, prior |-> LiveWith(objs, pair)]
    /\ UNCHANGED <<cls, menu, ncalls, runVars>>

\* del h: the call site lets go of its tracer.
Drop(h) ==
    /\ held[h] # 0
    /\ LET held1 == [held EXCEPT ![h] = 0] IN
         /\ held' = held1
         /\ objs' = Collect(objs, held1)
         /\ iwc' = Finalize(iwc, objs, held1)
         /\ last' = [op |-> "drop", obj |-> held[h]]
    /\ UNCHANGED <<cls, menu, nextId, ncalls, runVars>>

\* The operation before this one was a call on tracer o that raised.
FailedOn(o) == last.op = "call" /\ ~last.ok /\ last.obj = o

\* t.loop(*ops), t.trace_loop(*ops), t.vmap_loop(*ops), or the cond
\* counterparts, on a tracer some call site holds, from entry to return.
\* The direct call reads nothing of the operands' signature, so one operand
\* tuple stands for all; only batched operands carry a batch axis.
Call(o, mode, ops) ==
    /\ \E h \in Holders : held[h] = o
    /\ ncalls < MaxCalls
    /\ mode = "direct" => ops = Repeat(OpBase, 2)
    /\ mode # "vmap" => \A i \in 1 .. Len(ops) : ops[i].bd = OpBase.bd
    /\ LET r == CallOutcome(cls, objs[o], mode, ops)
       IN  /\ objs' = [objs EXCEPT ![o] = r.obj]
           /\ last' = [op |-> "call", obj |-> o, mode |-> mode, ops |-> ops,
                       ok |-> r.ok, hit |-> r.hit, built |-> r.built, from |-> r.from,
                       seen |-> <<mode, Signature(mode, ops)>> \in DOMAIN objs[o].nbuilt,
                       before |-> IF mode = "trace" THEN objs[o].ctrace
                                  ELSE IF mode = "vmap" THEN objs[o].cvmap ELSE <<>>,
                       afterFail |-> FailedOn(o),
                       retry |-> FailedOn(o) /\ last.mode = mode /\ last.ops = ops]
    /\ ncalls' = ncalls + 1
    /\ UNCHANGED <<cls, menu, held, iwc, nextId, runVars>>

Next ==
    \/ \E h \in Holders, pair \in Pairs, st \in {"auto", "yes", "no"} : Construct(h, pair, st)
    \/ \E h \in Holders : Drop(h)
    \/ \E o \in 1 .. MaxObjs, mode \in Modes, ops \in menu : Call(o, mode, ops)

Spec == Init /\ [][Next]_vars

\* ------------------------------------------ stateful trace_loop calls
\* The state dictionaries a stateful tracer is called with, by their key
\* sets.
StateDicts == {[keys |-> {"a"}], [keys |-> {"a", "b"}]}

\* trace_loop on a stateful tracer: `state = x[0]; x = x[1:]`, then
\* key = tuple((a.ndim, a.dtype, a.device) for a in x).
StateTraceKeyWithDict(st, xs) == <<st.keys>> \o TraceKey(xs)

StateTraceKey(st, xs) == TraceKey(xs)

\* t.trace_loop(state, *ops) on a stateful tracer of loop.py some call
\* site holds, from entry to return: the lookup under the key, and on a
\* miss _compile_state_loop_fn(x) and the store.
StatefulTraceLoop(o, sd, ops) ==
    /\ cls = "W"
    /\ \E h \in Holders : held[h] = o
    /\ objs[o].stateful
    /\ ncalls < MaxCalls
    /\ \A i \in 1 .. Len(ops) : ops[i].bd = OpBase.bd
    /\ LET args == <<sd>> \o ops
           st == Head(args)
           xs == Tail(args)
           key == StateTraceKey(st, xs)
           r == CachedCall(objs[o], objs[o].ctrace, key,
                           BuildOutcomeW("trace", TRUE, Len(xs)), xs, "trace",
                           [objs[o] EXCEPT !.ctrace = StoreTrace(@, key, xs)])
       IN  /\ objs' = [objs EXCEPT ![o] = r.obj]
           /\ last' = [op |-> "call", obj |-> o, mode |-> "trace", ops |-> xs,
                       skeys |-> st.keys,
                       ok |-> r.ok, hit |-> r.hit, built |-> r.built, from |-> r.from,
                       seen |-> <<"trace", Signature("trace", xs)>> \in DOMAIN objs[o].nbuilt,
                       before |-> objs[o].ctrace,
                       prevKeys |-> IF last.op = "call" /\ last.obj = o
                                    THEN {last.skeys} ELSE {}]
    /\ ncalls' = ncalls + 1
    /\ UNCHANGED <<cls, menu, held, iwc, nextId, runVars>>

InitStateful == Init /\ cls = "W"

NextStateful ==
    \/ \E h \in Holders, pair \in Pairs, st \in {"auto", "yes", "no"} : Construct(h, pair, st)
    \/ \E h \in Holders : Drop(h)
    \/ \E o \in 1 .. MaxObjs, sd \in StateDicts, ops \in menu : StatefulTraceLoop(o, sd, ops)

SpecStateful == InitStateful /\ [][NextStateful]_vars


\* ------------------------------------------------- reference definitions
\* The operands the call was made with.
X0 == MakeOperands(inp.n, inp.L, inp.seed)

\* The direct loop as a whole, on the operands of one lane:
\*     while self.cond_fn(*x): x = self.body_fn(*x)
\*     return x
\* `hform` is how x is held ("tuple" on entry, then what the body returned).
\* The condition reads the first operand only and the body steps it by one,
\* so a condition that held Fuel times in a row holds forever.
Fuel == ValMod + 1

RECURSIVE DirectLoopRec(_, _, _, _, _)
DirectLoopRec(lim, form, xs, hform, fuel) ==
    IF fuel = 0 THEN [status |-> "diverges", vals |-> <<>>]
    ELSE IF hform = "tensor" THEN [status |-> "error", vals |-> <<>>]
    ELSE IF DirectTest(lim, xs)
         THEN DirectLoopRec(lim, form, DirectAssign(xs), form, fuel - 1)
         ELSE [status |-> "ok", vals |-> xs]

DirectLoop(lim, form, xs) == DirectLoopRec(lim, form, xs, "tuple", Fuel)

\* The body applied k times, and the least k after which the condition is
\* false (mathematical reference, independent of any loop).
RECURSIVE BodyPow(_, _)
BodyPow(xs, k) == IF k = 0 THEN xs ELSE body_fn(BodyPow(xs, k - 1))

FalseAfter(lim, xs) == {k \in 0 .. ValMod : ~cond_fn(lim, BodyPow(xs, k))}

LeastN(lim, xs) ==
    CHOOSE k \in FalseAfter(lim, xs) : \A j \in FalseAfter(lim, xs) : k <= j

Finished == pc \in {"done", "error"}

\* ------------------------------------------------------------------ claims

\* C1: for every operand count from 1 to 9, trace_loop and vmap_loop on a
\* single-lane batch return the operand values the direct loop returns,
\* whenever the direct loop terminates (TracingWhile of loop.py).
C1_LoopModesAgree ==
    (/\ inp.kind = "while" /\ inp.impl = "loop_py"
     /\ inp.n \in 1 .. MaxArity /\ inp.L = 1
     /\ DirectLoop(inp.lim, inp.form, LaneOf(X0, 1)).status = "ok"
     /\ Finished)
    => /\ res.status = "ok"
       /\ LaneOf(res.vals, 1) = DirectLoop(inp.lim, inp.form, LaneOf(X0, 1)).vals

\* C2: for every operand count from 1 to 9 and every predicate, trace_cond
\* and vmap_cond on a single-lane batch return the result list of the
\* direct cond (TracingCond).
C2_CondModesAgree ==
    (/\ inp.kind = "cond" /\ inp.n \in 1 .. MaxArity /\ inp.L = 1
     /\ Finished)
    => /\ res.status = "ok"
       /\ res.vals = DirectCond(inp.pred, inp.lenT, inp.lenF, X0)

\* C3: a batched loop over lanes that leave the loop after different
\* numbers of iterations returns, on every lane, what the direct loop
\* returns on that lane's operands alone.
LaneIters(l) == LeastN(inp.lim, LaneOf(X0, l))

LanesDiverge ==
    /\ \A l \in Lanes(inp.L) : DirectLoop(inp.lim, inp.form, LaneOf(X0, l)).status = "ok"
    /\ \E l \in Lanes(inp.L), m \in Lanes(inp.L) : LaneIters(l) # LaneIters(m)

C3_BatchedLanesMatchDirect ==
    (/\ inp.kind = "while" /\ inp.mode = "vmap"
     /\ inp.n \in 1 .. MaxArity
     /\ LanesDiverge
     /\ Finished)
    => /\ res.status = "ok"
       /\ \A l \in Lanes(inp.L) :
            LaneOf(res.vals, l) = DirectLoop(inp.lim, inp.form, LaneOf(X0, l)).vals

\* The part of C3 the code does satisfy: two or more operands.
C3_HoldsFromTwoOperands ==
    inp.n >= 2 => C3_BatchedLanesMatchDirect

C5_VmapCondSelects ==
    (inp.kind = "cond" /\ inp.mode = "vmap")
    => /\ pc # "error"
       /\ pc = "done" =>
            /\ nTrue = 1 /\ nFalse = 1
            /\ res.status = "ok"
            /\ Len(res.vals) >= 1
            /\ \A j \in 1 .. Len(res.vals) : \A l \in Lanes(inp.L) :
                 LET t == true_fn(inp.lenT, LaneOf(X0, l))
                     f == false_fn(inp.lenF, LaneOf(X0, l))
                 IN  /\ j <= Len(t) /\ j <= Len(f)
                     /\ res.vals[j][l] = (IF inp.pred[l] THEN t[j] ELSE f[j])

C5_Witness ==
    /\ inp.kind = "cond" /\ inp.mode = "vmap" /\ pc = "done"
    /\ inp.L >= 2 /\ inp.pred[1] /\ ~inp.pred[2]
    /\ nTrue = 1 /\ nFalse = 1

\* ------------------------------------------------- caches and instances
CacheOf(o, mode) == IF mode = "trace" THEN objs[o].ctrace ELSE objs[o].cvmap

CachedCallDone == last.op = "call" /\ last.mode # "direct" /\ last.ok

\* C6: a TracingWhile of loop.py builds the specialized procedure at most
\* once per operand signature and mode over its successful trace_loop and
\* vmap_loop calls: a call whose signature was built before is a cache hit
\* that builds nothing and leaves the cache as it was, and a call with a
\* signature not built before builds once and adds exactly one entry, the
\* entries already there staying as they were.
C6_BuiltOncePerSignature ==
    cls = "W" =>
      /\ \A o \in 1 .. MaxObjs : \A k \in DOMAIN objs[o].nbuilt : objs[o].nbuilt[k] <= 1
      /\ CachedCallDone =>
           LET now == CacheOf(last.obj, last.mode)
               sig == <<last.mode, Signature(last.mode, last.ops)>>
           IN  /\ last.seen => last.hit /\ ~last.built /\ now = last.before
               /\ ~last.seen =>
                    /\ last.built /\ ~last.hit
                    /\ objs[last.obj].nbuilt[sig] = 1
                    /\ Cardinality(DOMAIN now) = Cardinality(DOMAIN last.before) + 1
                    /\ \A k \in DOMAIN last.before :
                         k \in DOMAIN now /\ now[k] = last.before[k]

\* A second successful vmap_loop call with the signature of the first.
C6_Witness ==
    /\ cls = "W" /\ CachedCallDone /\ last.mode = "vmap"
    /\ last.seen /\ last.hit /\ ncalls = 2

\* C7: in control_flow.py, trace_cond and trace_loop called twice with
\* operands of one signature build the specialized procedure exactly once.
C7_ControlFlowTraceBuiltOnce ==
    cls \in {"CW", "CC"} =>
      \A o \in 1 .. MaxObjs : \A k \in DOMAIN objs[o].nbuilt :
        k[1] = "trace" => objs[o].nbuilt[k] <= 1

\* C8: in every tracer a cached procedure is reused only for operands whose
\* count, ranks, element types, storage locations and (batched) batch axes
\* equal those of the operands it was built from, and a call whose signature
\* was not built before builds afresh.
C8_ReuseOnlyOnEqualSignature ==
    (CachedCallDone /\ ~(cls = "CC" /\ last.mode = "vmap")) =>
      /\ last.hit => Signature(last.mode, last.from) = Signature(last.mode, last.ops)
      /\ ~last.seen => last.built

LiveObjs == {o \in 1 .. MaxObjs : objs[o].alive}

\* C9: for TracingWhile of loop.py no two live tracers have the same
\* (cond_fn, body_fn) pair; a construction returns a live tracer of the pair
\* it was given, the one already alive for that pair if there is one, and so
\* never the tracer a call site holds for another pair.
C9_InstancePerIdentity ==
    cls = "W" =>
      /\ \A o1, o2 \in LiveObjs : objs[o1].pair = objs[o2].pair => o1 = o2
      /\ last.op = "construct" =>
           /\ last.obj \in LiveObjs /\ objs[last.obj].pair = last.pair
           /\ last.prior # {} => last.obj \in last.prior
           /\ \A h \in Holders :
                (held[h] # 0 /\ objs[held[h]].pair # last.pair) => held[h] # last.obj

\* The second call site constructs with the pair the first one holds a
\* tracer of, and both now hold that tracer.
C9_Witness ==
    /\ cls = "W" /\ last.op = "construct" /\ last.h = "b"
    /\ last.prior = {held["a"]} /\ held["b"] = held["a"]

\* C10: a construction of TracingCond, or of control_flow.py's TracingWhile,
\* with the function pair of a tracer that is alive returns that tracer.
C10_ControlFlowSameInstance ==
    (cls \in {"CW", "CC"} /\ last.op = "construct" /\ last.prior # {}) =>
      last.obj \in last.prior


HeldBySome(o) == \E h \in Holders : held[h] = o

\* C11: the instance cache of loop.py never keeps a tracer alive: every
\* tracer alive, and every tracer the cache has an entry for, is referenced
\* by a call site; once the last call site drops a tracer it is freed and
\* its entry is gone; and a construction that finds no live tracer of its
\* pair creates a new tracer whose two specialization caches are empty.
C11_CacheKeepsNoTracerAlive ==
    cls = "W" =>
      /\ \A p \in Pairs : iwc[p] # 0 => iwc[p] \in LiveObjs /\ HeldBySome(iwc[p])
      /\ \A o \in LiveObjs : HeldBySome(o)
      /\ (last.op = "drop" /\ ~HeldBySome(last.obj)) =>
           /\ last.obj \notin LiveObjs
           /\ \A p \in Pairs : iwc[p] # last.obj
      /\ (last.op = "construct" /\ last.prior = {}) =>
           /\ last.obj = nextId - 1
           /\ objs[last.obj].ctrace = << >> /\ objs[last.obj].cvmap = << >>
           /\ objs[last.obj].nbuilt = << >>

\* A tracer was built for a pair, used and dropped; the pair is constructed
\* again and the tracer returned is a new one.
C11_Witness ==
    /\ cls = "W" /\ last.op = "construct" /\ last.prior = {}
    /\ \E o \in 1 .. MaxObjs :
         /\ o # last.obj /\ ~objs[o].alive /\ objs[o].pair = last.pair
    /\ ncalls >= 1

\* C12: a live TracingWhile of loop.py keeps the stateful flag and the
\* function pair of its first construction through every construction, drop
\* and loop call: no step changes them, so a construction that hits the
\* instance cache leaves them as they were whatever it is given.
C12_FlagAndFunctionsImmutable ==
    [][cls = "W" =>
         \A o \in 1 .. MaxObjs :
           (objs[o].alive /\ objs'[o].alive) =>
             /\ objs'[o].stateful = objs[o].stateful
             /\ objs'[o].pair = objs[o].pair]_vars

\* A construction hit the instance cache with a stateful argument that
\* resolves to the opposite of the flag the tracer has.
C12_Witness ==
    /\ cls = "W" /\ last.op = "construct" /\ last.prior = {last.obj}
    /\ objs[last.obj].stateful # ResolveStateful(last.st, last.pair)
    /\ ncalls >= 1

\* C13: the first construction of a TracingWhile of loop.py stores, for an
\* unset stateful argument, whether cond_fn or body_fn is a bound method,
\* and stores an explicit true or false as given.
C13_StatefulResolution ==
    (cls = "W" /\ last.op = "construct" /\ last.prior = {}) =>
      LET flag == objs[last.obj].stateful
          bound == \E i \in 1 .. 2 : IsBoundMethod(last.pair[i])
      IN  /\ last.st = "auto" => (flag <=> bound)
          /\ last.st = "yes" => flag
          /\ last.st = "no" => ~flag

\* A first construction with a bound method and the argument given as false.
C13_Witness ==
    /\ cls = "W" /\ last.op = "construct" /\ last.prior = {}
    /\ last.st = "no" /\ IsBoundMethod(last.pair[2])
    /\ ~objs[last.obj].stateful

\* C14: a loop or cond call with 10 operands raises the unsupported-arity
\* error in every execution mode, before any step function runs, and a call
\* with 9 operands does not raise it.
C14_TenOperandsRejected ==
    /\ (inp.kind \in {"while", "cond"} /\ inp.n = MaxArity + 1 /\ pc # "call") =>
         pc = "error" /\ res.err = "AssertionError"
    /\ (inp.kind \in {"while", "cond"} /\ inp.n = MaxArity) =>
         res.err # "AssertionError"

\* The part of C14 the code does satisfy: the compiled and the batched loop
\* and the compiled cond.
C14_HoldsWhereCompiled ==
    (inp.mode = "trace" \/ (inp.mode = "vmap" /\ inp.kind = "while")) =>
      C14_TenOperandsRejected

\* C15: when the body (the false branch) takes another number of operands
\* than the condition (the true branch), every call ends in an arity error,
\* a direct call whose condition is false at once included.
C15_ArityMismatchRaises ==
    (inp.kind \in {"while", "cond"} /\ inp.skew # 0 /\ Finished) =>
      res.status = "error" /\ res.err = ArityError(inp.impl, inp.mode)

\* The part of C15 the code does satisfy: a call that builds a procedure,
\* and a direct call that reaches the function of the other arity.
C15_HoldsWhereReached ==
    (/\ inp.kind \in {"while", "cond"} /\ inp.skew # 0 /\ Finished
     /\ \/ inp.mode = "trace"
        \/ inp.mode = "vmap" /\ inp.kind = "while"
        \/ inp.kind = "while" /\ DirectTest(inp.lim, LaneOf(X0, 1))
        \/ inp.kind = "cond" /\ \E l \in Lanes(inp.L) : ~inp.pred[l]) =>
      res.status = "error" /\ res.err = ArityError(inp.impl, inp.mode)

\* C16: a batched loop or cond call with a non-tensor operand ends in an
\* error whose message names the position of that operand.
C16_NonTensorNamesPosition ==
    (inp.kind \in {"while", "cond"} /\ inp.mode = "vmap" /\ inp.bad # 0 /\ Finished) =>
      res.status = "error" /\ res.pos = inp.bad

\* The part of C16 the code does satisfy: vmap_loop rejects the call.
C16_VmapLoopRejects ==
    (inp.kind = "while" /\ inp.mode = "vmap" /\ inp.bad # 0 /\ Finished) =>
      res.status = "error" /\ res.err = "AssertionError" /\ nCond = 0 /\ nBody = 0

KeyOf(mode, ops) == IF mode = "trace" THEN TraceKey(ops) ELSE VmapKeyLoopPy(ops)

C18_StatefulPairBothModes ==
    (/\ inp.kind = "while" /\ inp.stateful /\ Finished
     /\ FalseAfter(inp.lim, LaneOf(X0, 1)) # {}) =>
      /\ res.status = "ok" /\ res.form = "pair"
      /\ LaneOf(res.vals, 1) = BodyPow(LaneOf(X0, 1), LeastN(inp.lim, LaneOf(X0, 1)))

\* The part of C18 the code does satisfy: the trace mode, for the operand
\* counts whose stateful procedure compiles.
C18_TraceReturnsPair ==
    (inp.mode = "trace" /\ StateLoopCondArgs(inp.n) = "unpacked") =>
      C18_StatefulPairBothModes


\* The calls of the documented example: one operand, condition x < 10, body
\* x + 1; the direct and the compiled loop on 0, the batched loop on the
\* lanes 0, 5, 9.
ExampleCall ==
    /\ inp.kind = "while" /\ inp.impl = "loop_py" /\ inp.n = 1
    /\ inp.lim = ExampleLimit /\ inp.wrap = ExampleLimit + 1
    /\ IF inp.mode = "vmap" THEN inp.seed = ExampleStarts ELSE inp.seed = <<0>>

\* C19: each call of the example returns 10 in every lane.
C19_ExampleReturnsTen ==
    (ExampleCall /\ Finished) =>
      /\ res.status = "ok"
      /\ \A l \in Lanes(inp.L) : res.vals[1][l] = ExampleLimit

\* The part of C19 the code does satisfy: the compiled loop.
C19_TraceReturnsTen ==
    inp.mode = "trace" => C19_ExampleReturnsTen

C19_TraceWitness ==
    ExampleCall /\ inp.mode = "trace" /\ pc = "done" /\ res.vals = <<<<ExampleLimit>>>>


C20_TestWitness ==
    /\ inp.kind = "lift" /\ pc = "eager" /\ inp.batch = TestBatch
    /\ res.vals[1] = [l \in Lanes(TestLanes) |-> Expected]

\* C21: in every iteration of the batched loop, for every operand, a lane
\* whose mask was true before the body ran takes the body's value and a lane
\* whose mask was false keeps the value it had.
C21_MaskedLanesUpdate ==
    [][(inp.kind = "while" /\ inp.mode = "vmap" /\ pc = "body" /\ pc' = "cond") =>
         /\ Len(x') = Len(x)
         /\ \A i \in 1 .. Len(x) : \A l \in Lanes(inp.L) :
              x'[i][l] = (IF cond_res[i][l] THEN vmap_body(x)[i][l] ELSE x[i][l])]_vars

\* An iteration has run on a batch with a live and a converged lane, and the
\* body would have changed the converged lane.
C21_Witness ==
    /\ inp.kind = "while" /\ inp.mode = "vmap" /\ pc = "cond" /\ nBody >= 2
    /\ \E l, m \in Lanes(inp.L) :
         /\ cond_res[1][l] /\ ~cond_res[1][m]
         /\ \E i \in 1 .. Len(x) : vmap_body(x)[i][m] # x[i][m]

\* C22: in the batched loop a lane whose mask is false keeps a false mask in
\* every later condition evaluation, and its operand values stay as they are
\* up to and including the returned result.
C22_ConvergedLaneFrozen ==
    [][(inp.kind = "while" /\ inp.mode = "vmap" /\ cond_res # <<>>) =>
         \A l \in Lanes(inp.L) :
           (\E i \in 1 .. Len(cond_res) : ~cond_res[i][l]) =>
             /\ \A i \in 1 .. Len(cond_res') : ~cond_res'[i][l]
             /\ LaneOf(x', l) = LaneOf(x, l)
             /\ pc' = "done" => LaneOf(res'.vals, l) = LaneOf(x, l)]_vars

\* The loop returned after two or more iterations, one lane was converged
\* from the start, and the body moves that lane's operands.
C22_Witness ==
    /\ inp.kind = "while" /\ inp.mode = "vmap" /\ pc = "done" /\ nBody >= 2
    /\ \E m \in Lanes(inp.L) :
         /\ ~cond_fn(inp.lim, LaneOf(X0, m))
         /\ LaneOf(res.vals, m) = LaneOf(X0, m)
         /\ body_fn(LaneOf(X0, m)) # LaneOf(X0, m)

AllLanesTerminate ==
    \A l \in Lanes(inp.L) : DirectLoop(inp.lim, inp.form, LaneOf(X0, l)).status = "ok"

MaxLaneIters ==
    CHOOSE k \in {LaneIters(l) : l \in Lanes(inp.L)} :
      \A l \in Lanes(inp.L) : LaneIters(l) <= k

\* A batched loop call with tensor operands and step functions of one arity.
BatchedLoopCall ==
    /\ inp.kind = "while" /\ inp.mode = "vmap" /\ inp.n \in 1 .. MaxArity
    /\ inp.skew = 0 /\ inp.bad = 0

\* C23: the batched loop returns only if the direct loop terminates on every
\* lane alone, it does not fail when they all do, and when it returns the
\* batched body has run as many times as the slowest lane iterates.
C23_BatchedTermination ==
    BatchedLoopCall =>
      /\ pc \in {"ret", "done"} => AllLanesTerminate /\ nBody = MaxLaneIters
      /\ AllLanesTerminate => pc # "error"
      /\ (AllLanesTerminate /\ pc \in {"cond", "body"}) => nBody <= MaxLaneIters

\* The part of C23 the code does satisfy: two or more operands.
C23_HoldsFromTwoOperands ==
    inp.n >= 2 => C23_BatchedTermination

\* With two or more operands the batched loop does return when every lane
\* terminates, and does not when one does not.
C23_ReturnsFromTwoOperands ==
    /\ (BatchedLoopCall /\ inp.n >= 2 /\ AllLanesTerminate) ~> (pc = "done")
    /\ [](BatchedLoopCall /\ inp.n >= 2 /\ ~AllLanesTerminate => pc # "done")

\* A direct or compiled loop call that gets to run its loop: the procedure
\* builds, and the body returns its operands in the form the mode takes.
LoopStarts ==
    /\ inp.kind = "while"
    /\ \/ inp.mode = "direct" /\ inp.form = "tuple"
       \/ inp.mode = "trace" /\ BuildOutcome("while", "trace", inp.n, inp.form) = "ok"

CondTurnsFalse == FalseAfter(inp.lim, LaneOf(X0, 1)) # {}

C25_MasksAgreeAcrossOperands ==
    /\ []((inp.kind = "while" /\ inp.mode = "vmap" /\ inp.n >= 2 /\ cond_res # <<>>) =>
            /\ Len(cond_res) = inp.n
            /\ \A i \in 1 .. inp.n : \A l \in Lanes(inp.L) :
                 cond_res[i][l] = cond_res[1][l])
    /\ [][(inp.kind = "while" /\ inp.mode = "vmap" /\ inp.n >= 2 /\ pc = "cond") =>
            /\ pc' = "body" <=>
                 \E i \in 1 .. inp.n : \E l \in Lanes(inp.L) : cond_res'[i][l]
            /\ pc' = "ret" <=>
                 \A i \in 1 .. inp.n : \A l \in Lanes(inp.L) : ~cond_res'[i][l]]_vars

\* After an iteration, a condition evaluation left one lane true and one
\* false, and the loop goes on.
C25_Witness ==
    /\ inp.kind = "while" /\ inp.mode = "vmap" /\ inp.n >= 2
    /\ pc = "body" /\ nBody >= 1
    /\ \E l, m \in Lanes(inp.L) : cond_res[2][l] /\ ~cond_res[2][m]

\* C26: in the stateful compiled loop, at every operand count from 1 to 9,
\* the condition re-evaluated after a body step gets the state and then the
\* operands one by one, as the first evaluation does, and the call runs.
C26_StateCondArgsUnpacked ==
    (/\ inp.kind = "while" /\ inp.stateful /\ inp.mode = "trace"
     /\ inp.n \in 1 .. MaxArity /\ pc # "call") =>
      /\ StateLoopCondArgs(inp.n) = "unpacked"
      /\ pc # "error"

\* The part of C26 the code does satisfy: every operand count but three.
C26_HoldsExceptThree ==
    inp.n # 3 => C26_StateCondArgsUnpacked

\* C27: in the batched loop, at every operand count from 1 to 9, the mask
\* refreshed at the end of an iteration has the form of the initial mask,
\* one mask tensor per operand, so the procedure builds and the loop test
\* and the predicated update work on mask tensors.
C27_RefreshedMaskIsTensor ==
    (BatchedLoopCall /\ pc # "call") =>
      /\ VmapRefreshMaskForm(inp.n) = VmapInitMaskForm(inp.n)
      /\ pc # "error"
      /\ cond_res # <<>> => Len(cond_res) = inp.n

\* The part of C27 the code does satisfy: two or more operands.
C27_HoldsFromTwoOperands ==
    inp.n >= 2 => C27_RefreshedMaskIsTensor

\* C28: vmap_loop, at every operand count from 1 to 9, returns one result
\* per operand: the whole final value of operand i, tagged again with the
\* batch axes unwrapped from operand i, at the levels 1, 2, ... in order.
C28_OneTaggedResultPerOperand ==
    (BatchedLoopCall /\ AllLanesTerminate /\ Finished) =>
      /\ res.status = "ok"
      /\ Len(res.vals) = inp.n /\ Len(res.tags) = inp.n
      /\ \A i \in 1 .. inp.n :
           /\ res.vals[i] = x[i]
           /\ \A l \in Lanes(inp.L) :
                res.vals[i][l] = DirectLoop(inp.lim, inp.form, LaneOf(X0, l)).vals[i]
           /\ Len(res.tags[i]) = Len(inp.dims[i])
           /\ \A k \in 1 .. Len(inp.dims[i]) :
                res.tags[i][k] = [level |-> k, dim |-> inp.dims[i][k]]

\* The part of C28 the code does satisfy: two or more operands.
C28_HoldsFromTwoOperands ==
    inp.n >= 2 => C28_OneTaggedResultPerOperand

\* A batched loop returned operands that were batched on different axes at
\* two nesting levels.
C28_NestedWitness ==
    /\ BatchedLoopCall /\ pc = "done" /\ inp.n >= 2 /\ nBody >= 1
    /\ Len(inp.dims[1]) = 2 /\ inp.dims[1] # inp.dims[2]
    /\ inp.dims[1][1] # inp.dims[1][2]
    /\ res.tags[1] = AddBatchDims(inp.dims[1])

StatefulTraceCall == inp.kind = "while" /\ inp.stateful /\ inp.mode = "trace"

\* C29: in the stateful compiled loop the state writes are merged in the
\* order of evaluation.  A body call is given the state with the write of the
\* condition evaluated just before it; a condition call is given the write of
\* the body run just before it; the returned state holds the write of the
\* last condition evaluation, the one that came out false.
C29_StateMergedInOrder ==
    (StatefulTraceCall /\ nCond < CountCap) =>
      /\ pc = "body" =>
           /\ state.dict.c = nCond + nBody
           /\ nBody > 0 => state.condSaw.b = nCond + nBody - 1
      /\ (pc = "cond" /\ nBody > 0) =>
           /\ state.bodySaw.c = nCond + nBody - 1
           /\ state.dict.b = nCond + nBody
      /\ pc = "done" =>
           /\ res.form = "pair"
           /\ res.state.c = nCond + nBody
           /\ nBody > 0 => res.state.b = nCond + nBody - 1 /\ state.condSaw.b = res.state.b

\* A stateful compiled loop returned after two or more iterations.
C29_Witness ==
    /\ StatefulTraceCall /\ pc = "done" /\ nBody >= 2
    /\ res.state = [c |-> nCond + nBody, b |-> nCond + nBody - 1]

\* C30: the two specialization caches of a loop.py tracer are independent.
\* A trace_loop call leaves the batched cache as it was, a vmap_loop call
\* leaves the trace cache as it was, a direct loop call leaves both, and no
\* call touches the caches of another tracer.
C30_CachesIndependent ==
    [][(cls = "W" /\ ncalls' = ncalls + 1) =>
         /\ last'.op = "call"
         /\ last'.mode = "trace" => objs'[last'.obj].cvmap = objs[last'.obj].cvmap
         /\ last'.mode = "vmap" => objs'[last'.obj].ctrace = objs[last'.obj].ctrace
         /\ last'.mode = "direct" =>
              /\ objs'[last'.obj].ctrace = objs[last'.obj].ctrace
              /\ objs'[last'.obj].cvmap = objs[last'.obj].cvmap
         /\ \A o \in 1 .. MaxObjs : o # last'.obj => objs'[o] = objs[o]]_vars

\* A trace_loop call built and stored its procedure on a tracer whose
\* batched cache already held one.
C30_Witness ==
    /\ cls = "W" /\ last.op = "call" /\ last.mode = "trace" /\ last.built
    /\ DOMAIN objs[last.obj].cvmap # {}
    /\ DOMAIN objs[last.obj].ctrace # {}
    /\ DOMAIN objs[last.obj].cvmap # DOMAIN objs[last.obj].ctrace

\* A specialization cache in the next state holds every entry it holds now,
\* with the same procedure.
Grows(c, d) ==
    /\ DOMAIN c \subseteq DOMAIN d
    /\ \A k \in DOMAIN c : d[k] = c[k]

\* C31: over the lifetime of a tracer its specialization caches only grow.
\* No step removes an entry of the trace cache or of the batched cache of a
\* live tracer, and none replaces the procedure stored under a signature.
C31_CachesOnlyGrow ==
    [][\A o \in 1 .. MaxObjs :
         (objs[o].alive /\ objs'[o].alive) =>
            /\ Grows(objs[o].ctrace, objs'[o].ctrace)
            /\ Grows(objs[o].cvmap, objs'[o].cvmap)]_vars

\* A batched call built and stored a procedure in a cache that already
\* held one under another signature.
C31_Witness ==
    /\ last.op = "call" /\ last.mode = "vmap" /\ last.built
    /\ DOMAIN last.before # {}
    /\ DOMAIN last.before \subseteq DOMAIN objs[last.obj].cvmap
    /\ DOMAIN objs[last.obj].cvmap # DOMAIN last.before

\* The construction just made found a live tracer of loop.py for its pair.
RepeatedConstruction ==
    cls = "W" /\ last.op = "construct" /\ last.prior # {}

\* C32: a repeated construction of TracingWhile (loop.py) with the same
\* function pair returns the existing tracer and leaves its trace cache and
\* its batched cache as they were, and the first loop call after it with a
\* signature that was built before is a cache hit that builds nothing.
C32_RepeatedConstructionKeepsCaches ==
    [][/\ RepeatedConstruction' =>
            /\ last'.prior = {last'.obj}
            /\ objs[last'.obj].alive
            /\ objs'[last'.obj].ctrace = objs[last'.obj].ctrace
            /\ objs'[last'.obj].cvmap = objs[last'.obj].cvmap
            /\ objs'[last'.obj].nbuilt = objs[last'.obj].nbuilt
       /\ (/\ RepeatedConstruction /\ last'.op = "call"
           /\ last'.obj = last.obj /\ last'.mode # "direct"
           /\ <<last'.mode, Signature(last'.mode, last'.ops)>>
                   \in DOMAIN objs[last.obj].nbuilt) =>
               /\ last'.ok /\ last'.hit /\ ~last'.built
               /\ objs'[last.obj].nbuilt = objs[last.obj].nbuilt]_vars

\* A repeated construction returned a tracer that holds a built procedure
\* in its trace cache, with a loop call still to come.
C32_Witness ==
    /\ RepeatedConstruction
    /\ DOMAIN objs[last.obj].ctrace # {}
    /\ DOMAIN objs[last.obj].nbuilt # {}
    /\ ncalls < MaxCalls

\* C33: a trace-compiled or batched loop call with zero operands is rejected
\* at that call by the check on the operand count, with the same error as a
\* call with more than 9 operands.
C33_ZeroOperandsRejectedAsTen ==
    (/\ inp.kind = "while" /\ inp.mode \in {"trace", "vmap"}
     /\ inp.n = 0 /\ pc # "call") =>
        /\ pc = "error"
        /\ res.err = BuildOutcome("while", inp.mode, MaxArity + 1, "tuple")

\* What the code does with zero operands: the call does end in an error
\* before any step of the loop, but the assertion `len(args) <= 9` passes
\* and the error is the failed lookup loops_dict[0].
C33_ZeroOperandsRaiseKeyError ==
    (/\ inp.kind = "while" /\ inp.mode \in {"trace", "vmap"}
     /\ inp.n = 0 /\ pc # "call") =>
        /\ pc = "error" /\ res.err = "KeyError"
        /\ nCond = 0 /\ nBody = 0

\* A direct or trace-compiled cond call.
UnbatchedCondCall == inp.kind = "cond" /\ inp.mode \in {"direct", "trace"}

\* C34: in the direct and the trace-compiled cond exactly one branch
\* function is invoked per call: true_fn, once, when the predicate is true
\* and false_fn, once, otherwise; the other one is never invoked, and the
\* call returns what the invoked one returned.
C34_OneBranchInvoked ==
    UnbatchedCondCall =>
      /\ inp.pred[1] => nFalse = 0 /\ nTrue <= 1
      /\ ~inp.pred[1] => nTrue = 0 /\ nFalse <= 1
      /\ pc = "done" =>
           /\ nTrue + nFalse = 1
           /\ res.vals = (IF inp.pred[1] THEN TrueRes(inp.lenT, x, 1)
                          ELSE FalseRes(inp.lenF, x, 1))

\* A trace-compiled cond call with a false predicate returned, on branches
\* that give different results.
C34_Witness ==
    /\ UnbatchedCondCall /\ inp.mode = "trace" /\ ~inp.pred[1]
    /\ pc = "done" /\ nFalse = 1 /\ nTrue = 0
    /\ TrueRes(inp.lenT, x, 1) # FalseRes(inp.lenF, x, 1)

\* C35: in stateful mode the trace-cache key of trace_loop comes from the
\* operands after the leading state argument only. A stateful call hits
\* the cache exactly when its operands' ranks, element types and storage
\* locations were stored before, whatever the keys of its state dictionary;
\* a call that follows a successful one with the same operand signature and
\* a state dictionary of other keys runs the procedure that one used, and
\* builds and stores nothing.
C35_StateNotInTraceKey ==
    [][last'.op = "call" =>
         /\ last'.hit <=> TraceKey(last'.ops) \in DOMAIN objs[last'.obj].ctrace
         /\ (/\ last.op = "call" /\ last.ok /\ last'.obj = last.obj
             /\ TraceKey(last'.ops) = TraceKey(last.ops)
             /\ last'.skeys # last.skeys) =>
                /\ last'.hit /\ ~last'.built
                /\ last'.from = objs[last.obj].ctrace[TraceKey(last.ops)]
                /\ objs' = objs]_vars

\* Two stateful calls in a row on one tracer, with operands of one
\* signature and state dictionaries of different key sets: the second one
\* hit the cache.
C35_Witness ==
    /\ last.op = "call" /\ objs[last.obj].stateful
    /\ last.prevKeys # {} /\ last.skeys \notin last.prevKeys
    /\ last.hit /\ ~last.built /\ ncalls = 2

====
